---- MODULE Spec2Model ----
(***************************************************************************)
(* A model of interpreter/terminal_interface/start_terminal_interface.py:  *)
(* the option schema, the argparse pass over sys.argv, the special         *)
(* dispatch flags, mode expansion (fast / vision / os / local) with the    *)
(* OS-control package provisioning, the two set_attributes passes around   *)
(* the profile loader, the model default inference, the API-base model     *)
(* rewriting, the final dispatch and main()'s try / except / finally.      *)
(***************************************************************************)
EXTENDS Integers, Sequences, FiniteSets, TLC

(***************************************************************************)
(* Python values.  A value is a tagged tuple, so that values of different  *)
(* Python types can be compared: None, bool, str, int, float.              *)
(***************************************************************************)
None == <<"none">>

B(b) == <<"bool", b>>

S(s) == <<"str", s>>

I(n) == <<"int", n>>

F(n) == <<"float", n>>

\* Python truthiness (`if x:`, `not x`, `x or y`).
Truthy(v) ==
    CASE v[1] = "none"  -> FALSE
      [] v[1] = "bool"  -> v[2]
      [] v[1] = "str"   -> v[2] # ""
      [] v[1] = "int"   -> v[2] # 0
      [] v[1] = "float" -> v[2] # 0

(***************************************************************************)
(* Python str methods, computed character by character.                    *)
(***************************************************************************)
\* s.startswith(p)
StartsWith(s, p) == Len(s) >= Len(p) /\ SubSeq(s, 1, Len(p)) = p

\* p in s
Contains(s, p) ==
    \E i \in 1..(Len(s) - Len(p) + 1) : SubSeq(s, i, i + Len(p) - 1) = p

\* s[n:]
DropPrefix(s, n) == SubSeq(s, n + 1, Len(s))

LowerChar(c) ==
    CASE c = "A" -> "a" [] c = "B" -> "b" [] c = "C" -> "c" [] c = "D" -> "d"
      [] c = "E" -> "e" [] c = "F" -> "f" [] c = "G" -> "g" [] c = "H" -> "h"
      [] c = "I" -> "i" [] c = "J" -> "j" [] c = "K" -> "k" [] c = "L" -> "l"
      [] c = "M" -> "m" [] c = "N" -> "n" [] c = "O" -> "o" [] c = "P" -> "p"
      [] c = "Q" -> "q" [] c = "R" -> "r" [] c = "S" -> "s" [] c = "T" -> "t"
      [] c = "U" -> "u" [] c = "V" -> "v" [] c = "W" -> "w" [] c = "X" -> "x"
      [] c = "Y" -> "y" [] c = "Z" -> "z" [] OTHER -> c

\* s.lower()
Lower(s) ==
    LET low[i \in 0..Len(s)] ==
            IF i = 0 THEN "" ELSE low[i - 1] \o LowerChar(SubSeq(s, i, i))
    IN  low[Len(s)]

DigitOf(c) ==
    CASE c = "0" -> 0 [] c = "1" -> 1 [] c = "2" -> 2 [] c = "3" -> 3
      [] c = "4" -> 4 [] c = "5" -> 5 [] c = "6" -> 6 [] c = "7" -> 7
      [] c = "8" -> 8 [] c = "9" -> 9 [] OTHER -> -1

\* int(s) succeeds (decimal digits only; signs, blanks and underscores are
\* not among the tokens the model draws).
IsInt(s) ==
    /\ s # ""
    /\ \A i \in 1..Len(s) : DigitOf(SubSeq(s, i, i)) >= 0

\* int(s)
IntOf(s) ==
    LET val[i \in 0..Len(s)] ==
            IF i = 0 THEN 0 ELSE 10 * val[i - 1] + DigitOf(SubSeq(s, i, i))
    IN  val[Len(s)]

(***************************************************************************)
(* The option schema: the `arguments` list, in source order.  nickname ""  *)
(* and default None stand for a key the descriptor does not have; object   *)
(* "" stands for a descriptor without an "attribute" binding.              *)
(***************************************************************************)
Arg(name, nickname, type, default, action, object, attr_name, choices, nargs) ==
    [name |-> name, nickname |-> nickname, type |-> type, default |-> default,
     action |-> action, object |-> object, attr_name |-> attr_name,
     choices |-> choices, nargs |-> nargs]

arguments ==
    << Arg("profile", "p", "str", S("default.yaml"), "store_true", "", "", {}, ""),
       Arg("custom_instructions", "ci", "str", None, "store_true", "interpreter", "custom_instructions", {}, ""),
       Arg("system_message", "s", "str", None, "store_true", "interpreter", "system_message", {}, ""),
       Arg("auto_run", "y", "bool", None, "store_true", "interpreter", "auto_run", {}, ""),
       Arg("verbose", "v", "bool", None, "store_true", "interpreter", "verbose", {}, ""),
       Arg("model", "m", "str", None, "store_true", "llm", "model", {}, ""),
       Arg("temperature", "t", "float", None, "store_true", "llm", "temperature", {}, ""),
       Arg("llm_supports_vision", "lsv", "bool", None, "BooleanOptionalAction", "llm", "supports_vision", {}, ""),
       Arg("llm_supports_functions", "lsf", "bool", None, "BooleanOptionalAction", "llm", "supports_functions", {}, ""),
       Arg("context_window", "cw", "int", None, "store_true", "llm", "context_window", {}, ""),
       Arg("max_tokens", "x", "int", None, "store_true", "llm", "max_tokens", {}, ""),
       Arg("max_budget", "b", "float", None, "store_true", "llm", "max_budget", {}, ""),
       Arg("api_base", "ab", "str", None, "store_true", "llm", "api_base", {}, ""),
       Arg("api_key", "ak", "str", None, "store_true", "llm", "api_key", {}, ""),
       Arg("api_version", "av", "str", None, "store_true", "llm", "api_version", {}, ""),
       Arg("max_output", "xo", "int", None, "store_true", "interpreter", "max_output", {}, ""),
       Arg("force_task_completion", "fc", "bool", None, "store_true", "interpreter", "force_task_completion", {}, ""),
       Arg("disable_telemetry", "dt", "bool", B(FALSE), "store_true", "interpreter", "disable_telemetry", {}, ""),
       Arg("offline", "o", "bool", None, "store_true", "interpreter", "offline", {}, ""),
       Arg("speak_messages", "sm", "bool", None, "store_true", "interpreter", "speak_messages", {}, ""),
       Arg("safe_mode", "safe", "str", S("off"), "store_true", "interpreter", "safe_mode", {"off", "ask", "auto"}, ""),
       Arg("debug", "debug", "bool", None, "store_true", "interpreter", "debug", {}, ""),
       Arg("fast", "f", "bool", None, "store_true", "", "", {}, ""),
       Arg("multi_line", "ml", "bool", None, "store_true", "interpreter", "multi_line", {}, ""),
       Arg("local", "l", "bool", None, "store_true", "", "", {}, ""),
       Arg("vision", "vi", "bool", None, "store_true", "", "", {}, ""),
       Arg("os", "os", "bool", None, "store_true", "", "", {}, ""),
       Arg("reset_profile", "", "str", S("NOT_PROVIDED"), "store_true", "", "", {}, "?"),
       Arg("profiles", "", "bool", None, "store_true", "", "", {}, ""),
       Arg("local_models", "", "bool", None, "store_true", "", "", {}, ""),
       Arg("conversations", "", "bool", None, "store_true", "", "", {}, ""),
       Arg("server", "", "bool", None, "store_true", "", "", {}, ""),
       Arg("version", "", "bool", None, "store_true", "", "", {}, "") >>

ArgNames == {arguments[i].name : i \in DOMAIN arguments}

\* The empty dict get_argument_dictionary returns when no descriptor matches.
EmptyDict == Arg("", "", "", None, "", "", "", {}, "")

\* The first descriptor of each name: what the list comprehension's [0]
\* yields for a name that occurs in the schema.
FirstNamed ==
    [key \in ArgNames |->
        arguments[CHOOSE i \in DOMAIN arguments :
                     /\ arguments[i].name = key
                     /\ \A j \in DOMAIN arguments : arguments[j].name = key => i <= j]]

\* get_argument_dictionary(arguments, key): the first descriptor named key,
\* else {}.
get_argument_dictionary(key) ==
    IF key \in ArgNames THEN FirstNamed[key] ELSE EmptyDict

\* "attribute" in argument_dictionary
HasAttribute(d) == d.object # ""

(***************************************************************************)
(* Deprecated-flag rewriting of sys.argv (the program name sys.argv[0] is  *)
(* left out: argv is sys.argv[1:]).                                        *)
(***************************************************************************)
deprecated_flags == << <<"--debug_mode", "--verbose">> >>

\* old_flag in sys.argv
InList(av, tok) == \E i \in DOMAIN av : av[i] = tok

\* sys.argv.remove(old_flag): drops the first occurrence only.
ListRemove(av, tok) ==
    LET k == CHOOSE i \in DOMAIN av : av[i] = tok /\ \A j \in 1..(i - 1) : av[j] # tok
    IN  SubSeq(av, 1, k - 1) \o SubSeq(av, k + 1, Len(av))

RECURSIVE RewriteDeprecated(_, _)
\* for old_flag, new_flag in deprecated_flags.items(): remove the old flag,
\* append the new one.  k is the index of the pair being handled.
RewriteDeprecated(av, k) ==
    IF k > Len(deprecated_flags) THEN av
    ELSE LET old_flag == deprecated_flags[k][1]
             new_flag == deprecated_flags[k][2]
         IN  IF InList(av, old_flag)
             THEN RewriteDeprecated(Append(ListRemove(av, old_flag), new_flag), k + 1)
             ELSE RewriteDeprecated(av, k + 1)

\* The rename notices printed by the loop, one per old flag found.
DeprecationNotices(av) ==
    LET found == {k \in DOMAIN deprecated_flags : InList(av, deprecated_flags[k][1])}
    IN  IF found = {} THEN << >>
        ELSE << <<"print_renamed", deprecated_flags[CHOOSE k \in found : TRUE][1]>> >>

(***************************************************************************)
(* argparse: the parser built from the schema and parse_known_args.        *)
(* Every descriptor gets "-nickname" (when it has one) and "--name"; a     *)
(* BooleanOptionalAction also gets "--no-name".  Long options may be       *)
(* abbreviated to an unambiguous prefix.  Tokens of the forms "--", "-x=v" *)
(* and negative numbers are not among the tokens the model draws.          *)
(***************************************************************************)
flags(d) ==
    (IF d.nickname # "" THEN {"-" \o d.nickname} ELSE {})
        \cup {"--" \o d.name}
        \cup (IF d.type = "bool" /\ d.action = "BooleanOptionalAction"
              THEN {"--no-" \o d.name} ELSE {})

\* A token argparse classifies as an option ('O'), not as an argument ('A').
IsOptionLike(tok) == Len(tok) > 1 /\ StartsWith(tok, "-")

\* The (descriptor index, option string) pairs a token selects: an exact
\* option string, else the long option strings it abbreviates.
Matches(tok) ==
    LET exact == {<<i, tok>> : i \in {j \in DOMAIN arguments : tok \in flags(arguments[j])}}
        abbrev == UNION {{<<i, o>> : o \in {f \in flags(arguments[i]) : StartsWith(f, tok)}} :
                         i \in DOMAIN arguments}
    IN  IF exact # {} THEN exact
        ELSE IF StartsWith(tok, "--") THEN abbrev
        ELSE {}

\* type(value) succeeds and the value is among the choices, when there are any.
Convertible(d, tok) ==
    /\ d.type \in {"int", "float"} => IsInt(tok)
    /\ d.choices # {} => tok \in d.choices

\* type(value)
Convert(d, tok) ==
    CASE d.type = "int"   -> I(IntOf(tok))
      [] d.type = "float" -> F(IntOf(tok))
      [] OTHER            -> S(tok)

\* The namespace before any token is read: every dest at its default.
NamespaceDefaults == [n \in ArgNames |-> get_argument_dictionary(n).default]

ParseError == [error |-> TRUE, args |-> NamespaceDefaults, unknown_args |-> << >>, given |-> {}]

RECURSIVE ParseFrom(_, _, _, _, _)
\* One left-to-right pass over the tokens from position i.  given is the set
\* of dests some token of the command line has set.
ParseFrom(av, i, ns, extras, given) ==
    IF i > Len(av)
    THEN [error |-> FALSE, args |-> ns, unknown_args |-> extras, given |-> given]
    ELSE LET tok == av[i]
             m == Matches(tok)
         IN  IF ~IsOptionLike(tok) \/ m = {}
             THEN ParseFrom(av, i + 1, ns, Append(extras, tok), given)
             ELSE IF Cardinality(m) > 1
             THEN ParseError
             ELSE LET hit == CHOOSE h \in m : TRUE
                      d == arguments[hit[1]]
                      hasValue == i < Len(av) /\ ~IsOptionLike(av[i + 1])
                  IN  IF d.type = "bool"
                      THEN ParseFrom(av, i + 1,
                               [ns EXCEPT ![d.name] =
                                   IF d.action = "BooleanOptionalAction"
                                   THEN B(~StartsWith(hit[2], "--no-"))
                                   ELSE B(TRUE)],
                               extras, given \cup {d.name})
                      ELSE IF ~hasValue
                      THEN IF d.nargs = "?"
                           THEN ParseFrom(av, i + 1, [ns EXCEPT ![d.name] = None],
                                          extras, given \cup {d.name})
                           ELSE ParseError
                      ELSE IF ~Convertible(d, av[i + 1])
                      THEN ParseError
                      ELSE ParseFrom(av, i + 2,
                               [ns EXCEPT ![d.name] = Convert(d, av[i + 1])],
                               extras, given \cup {d.name})

\* parser.parse_known_args()
parse_known_args(av) == ParseFrom(av, 1, NamespaceDefaults, << >>, {})

(***************************************************************************)
(* The agent object and its language-model config as OpenInterpreter()     *)
(* constructs them (core code outside this file), the OS-control prompt    *)
(* and the package list.                                                   *)
(***************************************************************************)
DefaultSystemMessage == "You are Open Interpreter."

LibraryInterpreter ==
    [custom_instructions   |-> S(""),
     system_message        |-> S(DefaultSystemMessage),
     auto_run              |-> B(FALSE),
     verbose               |-> B(FALSE),
     max_output            |-> I(2800),
     force_task_completion |-> B(FALSE),
     disable_telemetry     |-> B(FALSE),
     offline               |-> B(FALSE),
     speak_messages        |-> B(FALSE),
     safe_mode             |-> S("off"),
     debug                 |-> B(FALSE),
     multi_line            |-> B(FALSE),
     os                    |-> B(FALSE),
     in_terminal_interface |-> B(FALSE)]

LibraryLlm ==
    [model              |-> S("gpt-4"),
     temperature        |-> F(0),
     supports_vision    |-> B(FALSE),
     supports_functions |-> None,
     context_window     |-> None,
     max_tokens         |-> None,
     max_budget         |-> None,
     api_base           |-> None,
     api_key            |-> None,
     api_version        |-> None]

\* The OS-control system prompt, cut to its first line, the icon line that
\* offline mode strips, and its last line.
IconLine == "mouse.click(icon=\"gear icon\") # Moves mouse to the icon\n"

OsSystemMessage ==
    "You are Open Interpreter, a world-class programmer.\n" \o IconLine
        \o "6. What options could you take next to get closer to your goal?"

\* s.replace(old, new), old non-empty: rest[i] is s[i-1:] with every
\* occurrence of old replaced, scanning from the left.
Replace(s, old, new) ==
    LET rest[i \in 1..(Len(s) + 1)] ==
            IF i + Len(old) - 1 > Len(s) THEN SubSeq(s, i, Len(s))
            ELSE IF SubSeq(s, i, i + Len(old) - 1) = old THEN new \o rest[i + Len(old)]
            ELSE SubSeq(s, i, i) \o rest[i + 1]
    IN  rest[1]

packages == <<"cv2", "plyer", "pyautogui", "pyperclip", "pywinctl">>

pip_names == <<"pip", "pip3">>

\* The packages of a list that __import__ fails on, in list order.
NotImportable(list, imp) ==
    LET acc[i \in 0..Len(list)] ==
            IF i = 0 THEN << >>
            ELSE IF list[i] \in imp THEN acc[i - 1] ELSE Append(acc[i - 1], list[i])
    IN  acc[Len(list)]

(***************************************************************************)
(* set_attributes(args, arguments): for every dest whose value is not None *)
(* and whose descriptor carries an "attribute", setattr(object, attr_name, *)
(* value).  The state written is the pair of objects.                      *)
(***************************************************************************)
\* Mutant of AttributeDests: a value is bound only if it is truthy.
AttributeDests_Truthy(a) ==
    {n \in DOMAIN a : /\ Truthy(a[n])
                      /\ get_argument_dictionary(n) # EmptyDict
                      /\ HasAttribute(get_argument_dictionary(n))}

\* The dests that pass the three tests of the loop body.
AttributeDests(a) ==
    {n \in DOMAIN a : /\ a[n] # None
                      /\ get_argument_dictionary(n) # EmptyDict
                      /\ HasAttribute(get_argument_dictionary(n))}

\* The (object, attr_name) pairs a pass assigns.
AttributesSet(a) ==
    {<<get_argument_dictionary(n).object, get_argument_dictionary(n).attr_name>> :
        n \in AttributeDests(a)}

SetOn(a, object, fields) ==
    [f \in DOMAIN fields |->
        LET ns == {n \in AttributeDests(a) :
                      /\ get_argument_dictionary(n).object = object
                      /\ get_argument_dictionary(n).attr_name = f}
        IN  IF ns # {} THEN a[CHOOSE n \in ns : TRUE] ELSE fields[f]]

set_attributes(a, objs) ==
    [interpreter |-> SetOn(a, "interpreter", objs.interpreter),
     llm         |-> SetOn(a, "llm", objs.llm)]

\* The diagnostic lines of a pass, printed when args.verbose is truthy.
VerboseLines(a) ==
    IF Truthy(a["verbose"]) THEN << <<"print_setting", AttributesSet(a)>> >> ELSE << >>

(***************************************************************************)
(* Model default inference and API-base model rewriting, on the llm        *)
(* object.                                                                 *)
(***************************************************************************)
\* Mutant of FillUnset: the three fields are assigned whether set or not.
FillUnset_Always(l, cw, mt, sf) ==
    [l EXCEPT !.context_window     = cw,
              !.max_tokens         = mt,
              !.supports_functions = sf]

FillUnset(l, cw, mt, sf) ==
    [l EXCEPT !.context_window     = IF @ = None THEN cw ELSE @,
              !.max_tokens         = IF @ = None THEN mt ELSE @,
              !.supports_functions = IF @ = None THEN sf ELSE @]

\* Mutant of InferDefaults: the rule for the other names that start with
\* "gpt-4" is left out.
InferDefaults_ExactOnly(l) ==
    LET m == l.model[2]
        sf == B(~Contains(m, "vision"))
        first ==
            IF m = "gpt-4" \/ m = "openai/gpt-4"
            THEN FillUnset(l, I(6500), I(4096), sf)
            ELSE l
    IN  IF StartsWith(m, "gpt-3.5-turbo") \/ StartsWith(m, "openai/gpt-3.5-turbo")
        THEN FillUnset(first, I(16000), I(4096), B(TRUE))
        ELSE first

InferDefaults(l) ==
    LET m == l.model[2]
        sf == B(~Contains(m, "vision"))
        first ==
            IF m = "gpt-4" \/ m = "openai/gpt-4"
            THEN FillUnset(l, I(6500), I(4096), sf)
            ELSE IF StartsWith(m, "gpt-4") \/ StartsWith(m, "openai/gpt-4")
            THEN FillUnset(l, I(123000), I(4096), sf)
            ELSE l
    IN  IF StartsWith(m, "gpt-3.5-turbo") \/ StartsWith(m, "openai/gpt-3.5-turbo")
        THEN FillUnset(first, I(16000), I(4096), B(TRUE))
        ELSE first

\* Mutant of ApiBaseModel: the prefixes are compared without lower-casing
\* the model name.
ApiBaseModel_CaseSensitive(l) ==
    LET m == l.model[2]
    IN  IF ~Truthy(l.api_base) THEN l
        ELSE IF /\ ~StartsWith(m, "openai/")
                /\ ~StartsWith(m, "azure/")
                /\ ~StartsWith(m, "ollama")
                /\ ~StartsWith(m, "jan")
                /\ ~StartsWith(m, "local")
        THEN [l EXCEPT !.model = S("openai/" \o m)]
        ELSE IF StartsWith(m, "jan/")
        THEN [l EXCEPT !.model = S(DropPrefix(m, 4))]
        ELSE l

ApiBaseModel(l) ==
    LET m == l.model[2]
        low == Lower(m)
    IN  IF ~Truthy(l.api_base) THEN l
        ELSE IF /\ ~StartsWith(low, "openai/")
                /\ ~StartsWith(low, "azure/")
                /\ ~StartsWith(low, "ollama")
                /\ ~StartsWith(low, "jan")
                /\ ~StartsWith(low, "local")
        THEN [l EXCEPT !.model = S("openai/" \o m)]
        ELSE IF StartsWith(low, "jan/")
        THEN [l EXCEPT !.model = S(DropPrefix(m, 4))]
        ELSE l

(***************************************************************************)
(* State.                                                                  *)
(***************************************************************************)
VARIABLES
    pc,               \* the statement control stands at
    argv,             \* sys.argv[1:]
    args,             \* the namespace parse_known_args returned, as mutated since
    cli,              \* what parse_known_args returned (history)
    interpreter,      \* the agent object's fields
    llm,              \* interpreter.llm's fields
    profile_file,     \* the fields the profile loader assigns: {<<object, attr, value>>}
    importable,       \* the packages __import__ succeeds on
    missing_packages, \* local of the OS-control block
    pip_i,            \* position of the `for pip_name in ["pip", "pip3"]` loop
    user_input,       \* the answer to the install prompt
    log,              \* prints, import checks and calls to collaborators, in order (history)
    outcome,          \* how start_terminal_interface ended
    terminated        \* calls of interpreter.computer.terminate()

vars == <<pc, argv, args, cli, interpreter, llm, profile_file, importable,
          missing_packages, pip_i, user_input, log, outcome, terminated>>

(***************************************************************************)
(* Bounds and the inputs drawn under them.                                 *)
(***************************************************************************)
\* Longest command line drawn.
MaxArgs == 3

\* Most fields a drawn profile assigns.
MaxProfileWrites == 1

\* Most packages missing when the run starts.
MaxMissing == 1

SeqsUpTo(T, n) == UNION {[1..k -> T] : k \in 0..n}

\* Command lines that exercise parsing, the special flags and the profile choice.
TokensCli == {"--fast", "--profile", "custom.yaml", "--reset_profile", "--not-a-real-flag"}

\* Command lines that exercise the precedence of command line, profile and default.
TokensPrecedence == {"--model", "llama2", "--safe_mode", "ask", "-y", "--os"}

\* Command lines that exercise OS control mode.
TokensOs == {"--os", "--offline", "-y"}

\* Command lines that exercise the special dispatch flags, alone and with
\* OS control mode.
TokensSpecial ==
    {"--profiles", "--local_models", "--version", "--reset_profile", "custom.yaml", "--os"}

\* Command lines that exercise the mode flags together.
TokensModes == {"--local", "--os", "--vision", "--fast", "--profile", "custom.yaml", ""}

\* Command lines that exercise the deprecated flag.
TokensDeprecated == {"--debug_mode", "--verbose", "--profile", "custom.yaml"}

\* The model names drawn for model default inference and API-base rewriting.
ModelNames ==
    {"gpt-4", "openai/gpt-4", "gpt-4-turbo", "gpt-4-vision-preview",
     "openai/gpt-4-vision", "gpt-3.5-turbo-xyz", "openai/gpt-3.5-turbo",
     "llama2", "jan/llama2", "JAN/llama2", "jan/gpt-4", "OpenAI/gpt-4", "azure/gpt-4",
     "ollama/llama2", "local", ""}

\* Command lines `--model <name>`, alone or followed by `--offline`.
ModelCommandLines ==
    {<<"--model", m>> \o rest : m \in ModelNames, rest \in SeqsUpTo({"--offline"}, MaxArgs - 2)}

\* The assignments a profile may make to the model config.
LlmWritePool ==
    { <<"llm", "api_base", S("http://localhost:1234/v1")>>,
      <<"llm", "context_window", I(3000)>>,
      <<"llm", "max_tokens", I(100)>>,
      <<"llm", "supports_functions", B(FALSE)>> }

AllImportable == {packages[i] : i \in DOMAIN packages}

\* The assignments a profile may make.
ProfileWritePool ==
    { <<"llm", "model", S("gpt-3.5-turbo")>>,
      <<"llm", "api_base", S("http://localhost:1234/v1")>>,
      <<"llm", "context_window", I(3000)>>,
      <<"interpreter", "safe_mode", S("ask")>>,
      <<"interpreter", "disable_telemetry", B(TRUE)>>,
      <<"interpreter", "auto_run", B(TRUE)>> }

\* A profile assigns each field at most once.
Profiles(pool, n) ==
    {w \in SUBSET pool :
        /\ Cardinality(w) <= n
        /\ \A x \in w, y \in w : (x[1] = y[1] /\ x[2] = y[2]) => x = y}

\* What the answer typed at the install prompt may be.
Answers == {"y", "Y", "n"}

update_results == {"newer", "current", "error"}

NotParsed == [error |-> FALSE, args |-> NamespaceDefaults, unknown_args |-> << >>, given |-> {}]

InitWith(command_lines, profiles, importables) ==
    /\ argv \in command_lines
    /\ profile_file \in profiles
    /\ importable \in importables
    /\ pc = "parse"
    /\ args = NamespaceDefaults
    /\ cli = NotParsed
    /\ interpreter = LibraryInterpreter
    /\ llm = LibraryLlm
    /\ missing_packages = << >>
    /\ pip_i = 0
    /\ user_input = ""
    /\ log = << >>
    /\ outcome = "none"
    /\ terminated = 0

\* OS control mode, with some packages missing when the run starts.  Its
\* flags take no value, so a command line names each at most once.
InitOs ==
    InitWith({av \in SeqsUpTo(TokensOs, MaxArgs) :
                 \A i \in DOMAIN av, j \in DOMAIN av : av[i] = av[j] => i = j},
             {{}},
             {imp \in SUBSET AllImportable : Cardinality(AllImportable \ imp) <= MaxMissing})

Init ==
    \/ InitWith(SeqsUpTo(TokensCli, MaxArgs),
                Profiles({<<"llm", "model", S("gpt-3.5-turbo")>>}, MaxProfileWrites),
                {AllImportable})
    \/ InitWith(SeqsUpTo(TokensPrecedence, MaxArgs),
                Profiles(ProfileWritePool, MaxProfileWrites),
                {AllImportable})
    \/ InitOs
    \/ InitWith(SeqsUpTo(TokensSpecial, MaxArgs), {{}}, {AllImportable})
    \/ InitWith(SeqsUpTo(TokensModes, MaxArgs), {{}}, {AllImportable})
    \/ InitWith(SeqsUpTo(TokensDeprecated, MaxArgs), {{}}, {AllImportable})
    \/ InitWith(ModelCommandLines, Profiles(LlmWritePool, MaxProfileWrites), {AllImportable})

(***************************************************************************)
(* start_terminal_interface, statement by statement.                       *)
(***************************************************************************)
\* Mutant of UnknownArgsExit: the unknown arguments are never looked at.
UnknownArgsIgnored(r) == FALSE

\* if unknown_args:
UnknownArgsExit(r) == r.unknown_args # << >>

\* Deprecated-flag rewriting, parser construction, parse_known_args and the
\* handling of unknown arguments.  An argparse error is SystemExit(2).
ParseArgs ==
    /\ pc = "parse"
    /\ LET av == RewriteDeprecated(argv, 1)
           r == parse_known_args(av)
           notices == DeprecationNotices(argv)
       IN  /\ argv' = av
           /\ cli' = r
           /\ args' = r.args
           /\ IF r.error
              THEN /\ log' = notices \o << <<"argparse_error">> >>
                   /\ outcome' = "exit2"
                   /\ pc' = "finally"
              ELSE IF UnknownArgsExit(r)
              THEN /\ log' = notices \o << <<"print_unrecognized", r.unknown_args>>,
                                           <<"print_usage">>, <<"print_docs_link">> >>
                   /\ outcome' = "exit1"
                   /\ pc' = "finally"
              ELSE /\ log' = notices
                   /\ outcome' = outcome
                   /\ pc' = "special"
    /\ UNCHANGED <<interpreter, llm, profile_file, importable, missing_packages,
                   pip_i, user_input, terminated>>

\* if args.reset_profile is not None and args.reset_profile != "NOT_PROVIDED":
ResetRequested(a) == a.reset_profile # None /\ a.reset_profile # S("NOT_PROVIDED")

\* The special dispatch flags: each runs its side effect and returns.
SpecialFlags ==
    /\ pc = "special"
    /\ IF Truthy(args.profiles)
       THEN /\ log' = Append(log, <<"open_storage_dir", "profiles">>)
            /\ outcome' = "return" /\ pc' = "finally"
       ELSE IF Truthy(args.local_models)
       THEN /\ log' = Append(log, <<"open_storage_dir", "models">>)
            /\ outcome' = "return" /\ pc' = "finally"
       ELSE IF ResetRequested(args)
       THEN /\ log' = Append(log, <<"reset_profile", args.reset_profile>>)
            /\ outcome' = "return" /\ pc' = "finally"
       ELSE IF Truthy(args.version)
       THEN /\ log' = Append(log, <<"print_version">>)
            /\ outcome' = "return" /\ pc' = "finally"
       ELSE /\ log' = log
            /\ outcome' = outcome /\ pc' = "mode"
    /\ UNCHANGED <<argv, args, cli, interpreter, llm, profile_file, importable,
                   missing_packages, pip_i, user_input, terminated>>

\* if interpreter.auto_run and safe_mode is "ask" or "auto": auto_run = False
SafeModeAutoRun(i) ==
    IF Truthy(i.auto_run) /\ (i.safe_mode = S("ask") \/ i.safe_mode = S("auto"))
    THEN [i EXCEPT !.auto_run = B(FALSE)]
    ELSE i

\* Mutant of FastVisionProfile: --fast leaves a profile named on the command
\* line alone.
FastVisionProfile_KeepExplicit(a) ==
    LET a1 == IF Truthy(a.fast) /\ a.profile = get_argument_dictionary("profile").default
              THEN [a EXCEPT !.profile = S("fast.yaml")] ELSE a
    IN  IF Truthy(a1.vision) THEN [a1 EXCEPT !.profile = S("vision.yaml")] ELSE a1

\* if args.fast: args.profile = "fast.yaml"; if args.vision: args.profile = "vision.yaml"
FastVisionProfile(a) ==
    LET a1 == IF Truthy(a.fast) THEN [a EXCEPT !.profile = S("fast.yaml")] ELSE a
    IN  IF Truthy(a1.vision) THEN [a1 EXCEPT !.profile = S("vision.yaml")] ELSE a1

\* The field settings of `if args.os:`, up to the package check.
OsInterpreter(i, a) ==
    [i EXCEPT !.os = B(TRUE),
              !.auto_run = B(TRUE),
              !.force_task_completion = B(TRUE),
              !.system_message =
                  S(IF Truthy(a.offline) THEN Replace(OsSystemMessage, IconLine, "")
                    ELSE OsSystemMessage)]

\* Mutant of OsLlm: the context window and max tokens are left as they are.
OsLlm_NoLimits(l) ==
    [l EXCEPT !.supports_vision = B(TRUE),
              !.supports_functions = B(FALSE)]

OsLlm(l) ==
    [l EXCEPT !.supports_vision = B(TRUE),
              !.supports_functions = B(FALSE),
              !.context_window = I(110000),
              !.max_tokens = I(4096)]

\* if not args.model: args.model = "gpt-4-vision-preview"
OsModel(a) ==
    IF ~Truthy(a.model) THEN [a EXCEPT !.model = S("gpt-4-vision-preview")] ELSE a

\* Mutant of NeedsPrompt: the prompt is shown whatever the import check found.
NeedsPrompt_Always(missing) == TRUE

\* if missing_packages:
NeedsPrompt(missing) == missing # << >>

\* Safe-mode check, fast and vision, and the OS-control block up to the
\* first import check of the packages.
ModeExpand ==
    /\ pc = "mode"
    /\ IF Truthy(args.os)
       THEN /\ interpreter' = OsInterpreter(SafeModeAutoRun(interpreter), args)
            /\ llm' = OsLlm(llm)
            /\ args' = OsModel(FastVisionProfile(args))
            /\ missing_packages' = NotImportable(packages, importable)
            /\ log' = Append(log, <<"import_check", NotImportable(packages, importable)>>)
            /\ pc' = IF NeedsPrompt(NotImportable(packages, importable))
                     THEN "prompt" ELSE "os_enabled"
       ELSE /\ interpreter' = SafeModeAutoRun(interpreter)
            /\ args' = FastVisionProfile(args)
            /\ pc' = "local"
            /\ UNCHANGED <<llm, missing_packages, log>>
    /\ UNCHANGED <<argv, cli, profile_file, importable, pip_i, user_input,
                   outcome, terminated>>

\* if user_input.lower() != "y":
Declined(answer) == Lower(answer) # "y"

\* The missing-packages message, the (y/n) prompt and the decline notice.
\* Control goes on to the install loop whatever the answer.
Prompt ==
    /\ pc = "prompt"
    /\ \E answer \in Answers :
        /\ user_input' = answer
        /\ log' = log \o << <<"display_missing", missing_packages>>, <<"input", answer>> >>
                      \o (IF Declined(answer)
                          THEN << <<"print_install_manually">>, <<"print_starting_anyway">> >>
                          ELSE << >>)
    /\ pip_i' = 1
    /\ pc' = "install"
    /\ UNCHANGED <<argv, args, cli, interpreter, llm, profile_file, importable,
                   missing_packages, outcome, terminated>>

\* Mutant of Install: the loop does not stop when the packages were got.
Install_NoEarlyStop ==
    /\ pc = "install"
    /\ \E imp \in SUBSET AllImportable :
        /\ importable \subseteq imp
        /\ importable' = imp
        /\ IF pip_i = Len(pip_names)
           THEN pc' = "recheck" /\ pip_i' = pip_i
           ELSE pc' = "install" /\ pip_i' = pip_i + 1
        /\ log' = log \o << <<"computer_run", "shell",
                               pip_names[pip_i] \o " install 'open-interpreter[os]'">>,
                             <<"import_check", NotImportable(missing_packages, imp)>> >>
    /\ UNCHANGED <<argv, args, cli, interpreter, llm, profile_file,
                   missing_packages, user_input, outcome, terminated>>

\* One iteration of `for pip_name in ["pip", "pip3"]`: the install command,
\* after which any of the packages may have become importable, and the
\* got_em recheck of the initially missing ones.
Install ==
    /\ pc = "install"
    /\ \E imp \in SUBSET AllImportable :
        /\ importable \subseteq imp
        /\ importable' = imp
        /\ LET got_em == NotImportable(missing_packages, imp) = << >>
           IN  IF got_em \/ pip_i = Len(pip_names)
               THEN pc' = "recheck" /\ pip_i' = pip_i
               ELSE pc' = "install" /\ pip_i' = pip_i + 1
        /\ log' = log \o << <<"computer_run", "shell",
                               pip_names[pip_i] \o " install 'open-interpreter[os]'">>,
                             <<"import_check", NotImportable(missing_packages, imp)>> >>
    /\ UNCHANGED <<argv, args, cli, interpreter, llm, profile_file,
                   missing_packages, user_input, outcome, terminated>>

\* Mutant of Recheck: packages still missing after the install attempts end
\* the run with exit status 1.
Recheck_Fatal ==
    /\ pc = "recheck"
    /\ missing_packages' = NotImportable(packages, importable)
    /\ log' = Append(log, <<"import_check", NotImportable(packages, importable)>>)
    /\ IF NotImportable(packages, importable) # << >>
       THEN pc' = "finally" /\ outcome' = "exit1"
       ELSE pc' = "os_enabled" /\ outcome' = outcome
    /\ UNCHANGED <<argv, args, cli, interpreter, llm, profile_file, importable,
                   pip_i, user_input, terminated>>

\* The second import check of the full package list and the warning.
Recheck ==
    /\ pc = "recheck"
    /\ missing_packages' = NotImportable(packages, importable)
    /\ log' = Append(log, <<"import_check", NotImportable(packages, importable)>>)
                  \o (IF NotImportable(packages, importable) # << >>
                      THEN << <<"print_warning_not_installed", NotImportable(packages, importable)>>,
                              <<"print_install_manually">>, <<"print_starting_anyway">> >>
                      ELSE << >>)
    /\ pc' = "os_enabled"
    /\ UNCHANGED <<argv, args, cli, interpreter, llm, profile_file, importable,
                   pip_i, user_input, outcome, terminated>>

\* Mutant of ShowApiMessage: the banner depends on offline mode alone.
ShowApiMessage_OfflineOnly(a) == ~Truthy(a.offline)

\* if not args.offline and not args.auto_run:
ShowApiMessage(a) == ~Truthy(a.offline) /\ ~Truthy(a.auto_run)

\* if not args.auto_run:
ShowScreenRecordingMessage(a) == ~Truthy(a.auto_run)

\* "OS Control enabled", the banners, the computer API import and
\* args.profile = "os.py".
OsEnabled ==
    /\ pc = "os_enabled"
    /\ log' = log \o << <<"display_os_enabled">> >>
                  \o (IF ShowApiMessage(args) THEN << <<"display_api_message">> >> ELSE << >>)
                  \o (IF ShowScreenRecordingMessage(args)
                      THEN << <<"display_screen_recording">> >> ELSE << >>)
                  \o << <<"computer_run", "python", "import computer api">> >>
                  \o (IF ~Truthy(args.auto_run)
                      THEN << <<"display_no_approval_warning">> >> ELSE << >>)
    /\ args' = [args EXCEPT !.profile = S("os.py")]
    /\ pc' = "local"
    /\ UNCHANGED <<argv, cli, interpreter, llm, profile_file, importable,
                   missing_packages, pip_i, user_input, outcome, terminated>>

\* if args.local: args.profile = "local.py"
LocalMode ==
    /\ pc = "local"
    /\ args' = IF Truthy(args.local) THEN [args EXCEPT !.profile = S("local.py")] ELSE args
    /\ pc' = "bind_pre"
    /\ UNCHANGED <<argv, cli, interpreter, llm, profile_file, importable,
                   missing_packages, pip_i, user_input, log, outcome, terminated>>

\* Mutant of BindPre: the pass before the profile is left out.
BindPre_Skipped ==
    /\ pc = "bind_pre"
    /\ pc' = "profile"
    /\ UNCHANGED <<argv, args, cli, interpreter, llm, profile_file, importable,
                   missing_packages, pip_i, user_input, log, outcome, terminated>>

\* The first set_attributes(args, arguments), before the profile is applied.
BindPre ==
    /\ pc = "bind_pre"
    /\ LET objs == set_attributes(args, [interpreter |-> interpreter, llm |-> llm])
       IN  /\ interpreter' = objs.interpreter
           /\ llm' = objs.llm
    /\ log' = Append(log, <<"set_attributes", AttributesSet(args)>>) \o VerboseLines(args)
    /\ pc' = "profile"
    /\ UNCHANGED <<argv, args, cli, profile_file, importable, missing_packages,
                   pip_i, user_input, outcome, terminated>>

\* Mutant of EffectiveProfile: args.profile is passed on as it is.
EffectiveProfile_NoDefault(a) == a.profile

\* args.profile or get_argument_dictionary(arguments, "profile")["default"]
EffectiveProfile(a) ==
    IF Truthy(a.profile) THEN a.profile ELSE get_argument_dictionary("profile").default

\* What the profile loader does to the two objects: it assigns the fields
\* its file names.
ApplyProfile(writes, object, fields) ==
    [f \in DOMAIN fields |->
        LET ws == {w \in writes : w[1] = object /\ w[2] = f}
        IN  IF ws # {} THEN (CHOOSE w \in ws : TRUE)[3] ELSE fields[f]]

\* interpreter = profile(interpreter, <effective profile>)
LoadProfile ==
    /\ pc = "profile"
    /\ interpreter' = ApplyProfile(profile_file, "interpreter", interpreter)
    /\ llm' = ApplyProfile(profile_file, "llm", llm)
    /\ log' = Append(log, <<"profile", EffectiveProfile(args)>>)
    /\ pc' = "bind_post"
    /\ UNCHANGED <<argv, args, cli, profile_file, importable, missing_packages,
                   pip_i, user_input, outcome, terminated>>

\* Mutant of BindPost: the pass after the profile is left out.
BindPost_Skipped ==
    /\ pc = "bind_post"
    /\ pc' = "infer"
    /\ UNCHANGED <<argv, args, cli, interpreter, llm, profile_file, importable,
                   missing_packages, pip_i, user_input, log, outcome, terminated>>

\* The second set_attributes(args, arguments), after the profile is applied.
BindPost ==
    /\ pc = "bind_post"
    /\ LET objs == set_attributes(args, [interpreter |-> interpreter, llm |-> llm])
       IN  /\ interpreter' = objs.interpreter
           /\ llm' = objs.llm
    /\ log' = Append(log, <<"set_attributes", AttributesSet(args)>>) \o VerboseLines(args)
    /\ pc' = "infer"
    /\ UNCHANGED <<argv, args, cli, profile_file, importable, missing_packages,
                   pip_i, user_input, outcome, terminated>>

\* "Set some helpful settings we know are likely to be true"
Infer ==
    /\ pc = "infer"
    /\ llm' = InferDefaults(llm)
    /\ pc' = "update"
    /\ UNCHANGED <<argv, args, cli, interpreter, profile_file, importable,
                   missing_packages, pip_i, user_input, log, outcome, terminated>>

\* The update check: skipped when offline; any failure of it is swallowed.
CheckUpdate ==
    /\ pc = "update"
    /\ \E r \in update_results :
        log' = IF ~Truthy(interpreter.offline)
               THEN Append(log, <<"check_for_update">>)
                        \o (IF r = "newer" THEN << <<"display_new_version">> >> ELSE << >>)
               ELSE log
    /\ pc' = "api_base"
    /\ UNCHANGED <<argv, args, cli, interpreter, llm, profile_file, importable,
                   missing_packages, pip_i, user_input, outcome, terminated>>

\* if interpreter.llm.api_base: rewrite the model name
ApiBase ==
    /\ pc = "api_base"
    /\ llm' = ApiBaseModel(llm)
    /\ pc' = "dispatch"
    /\ UNCHANGED <<argv, args, cli, interpreter, profile_file, importable,
                   missing_packages, pip_i, user_input, log, outcome, terminated>>

\* conversation_navigator(interpreter), interpreter.server(), or
\* validate_llm_settings and interpreter.chat(); control is then inside the
\* collaborator.
Dispatch ==
    /\ pc = "dispatch"
    /\ IF Truthy(args.conversations)
       THEN /\ log' = Append(log, <<"conversation_navigator">>)
            /\ interpreter' = interpreter
       ELSE IF Truthy(args.server)
       THEN /\ log' = Append(log, <<"server">>)
            /\ interpreter' = interpreter
       ELSE /\ log' = log \o << <<"validate_llm_settings">>, <<"chat">> >>
            /\ interpreter' = [interpreter EXCEPT !.in_terminal_interface = B(TRUE)]
    /\ pc' = "running"
    /\ UNCHANGED <<argv, args, cli, llm, profile_file, importable, missing_packages,
                   pip_i, user_input, outcome, terminated>>

\* The collaborator returns, and start_terminal_interface with it.
Return ==
    /\ pc = "running"
    /\ outcome' = "return"
    /\ pc' = "finally"
    /\ UNCHANGED <<argv, args, cli, interpreter, llm, profile_file, importable,
                   missing_packages, pip_i, user_input, log, terminated>>

\* Where control waits on the user or on a subprocess.
SuspensionPoints == {"prompt", "install", "running"}

\* The user's interrupt at a suspension point: KeyboardInterrupt unwinds
\* start_terminal_interface.
Interrupt ==
    /\ pc \in SuspensionPoints
    /\ outcome' = "KeyboardInterrupt"
    /\ pc' = "finally"
    /\ UNCHANGED <<argv, args, cli, interpreter, llm, profile_file, importable,
                   missing_packages, pip_i, user_input, log, terminated>>

\* Mutant of MainFinally: the resources are released only when
\* start_terminal_interface returned.
MainFinally_OnReturnOnly ==
    /\ pc = "finally"
    /\ terminated' = IF outcome = "return" THEN terminated + 1 ELSE terminated
    /\ log' = IF outcome = "return" THEN Append(log, <<"terminate">>) ELSE log
    /\ pc' = "done"
    /\ UNCHANGED <<argv, args, cli, interpreter, llm, profile_file, importable,
                   missing_packages, pip_i, user_input, outcome>>

\* main(): except KeyboardInterrupt: pass; finally: computer.terminate().
MainFinally ==
    /\ pc = "finally"
    /\ terminated' = terminated + 1
    /\ log' = Append(log, <<"terminate">>)
    /\ pc' = "done"
    /\ UNCHANGED <<argv, args, cli, interpreter, llm, profile_file, importable,
                   missing_packages, pip_i, user_input, outcome>>

\* What main() raises to its caller: SystemExit passes through, the
\* KeyboardInterrupt does not.
Propagated == IF outcome \in {"exit1", "exit2"} THEN outcome ELSE "none"

Uninterrupted ==
    \/ ParseArgs
    \/ SpecialFlags
    \/ ModeExpand
    \/ Prompt
    \/ Install
    \/ Recheck
    \/ OsEnabled
    \/ LocalMode
    \/ BindPre
    \/ LoadProfile
    \/ BindPost
    \/ Infer
    \/ CheckUpdate
    \/ ApiBase
    \/ Dispatch
    \/ Return
    \/ MainFinally

Next == Uninterrupted \/ Interrupt

Spec == Init /\ [][Next]_vars

\* The OS-control runs in which the user never interrupts and every step
\* that can be taken is taken: the code is sequential and its collaborators
\* return.
SpecUninterrupted == InitOs /\ [][Uninterrupted]_vars /\ WF_vars(Uninterrupted)

(***************************************************************************)
(* Vocabulary of the properties.                                           *)
(***************************************************************************)
\* The positions of the log entries of one kind.
Tagged(tag) == {i \in DOMAIN log : log[i][1] = tag}

Logged(tag) == Tagged(tag) # {}

\* The install commands run so far.
InstallsRun == {i \in Tagged("computer_run") : log[i][2] = "shell"}

\* The options bound to a field of the agent or of its model config.
BoundDests == {n \in ArgNames : HasAttribute(get_argument_dictionary(n))}

\* The field an option is bound to: as it is now, and as the library built it.
FieldOf(n) ==
    LET d == get_argument_dictionary(n)
    IN  IF d.object = "interpreter" THEN interpreter[d.attr_name] ELSE llm[d.attr_name]

LibraryFieldOf(n) ==
    LET d == get_argument_dictionary(n)
    IN  IF d.object = "interpreter" THEN LibraryInterpreter[d.attr_name]
        ELSE LibraryLlm[d.attr_name]

\* What the profile assigns to the field an option is bound to.
ProfileWrites(n) ==
    LET d == get_argument_dictionary(n)
    IN  {w \in profile_file : w[1] = d.object /\ w[2] = d.attr_name}

\* The fields bound to the options literally given on the command line.
GivenAttributes ==
    {<<get_argument_dictionary(n).object, get_argument_dictionary(n).attr_name>> :
        n \in cli.given \cap BoundDests}

\* The set_attributes passes made so far, in order.
BinderPasses == SelectSeq(log, LAMBDA e : e[1] = "set_attributes")

\* Control has been handed to chat, the server or the conversation navigator.
Dispatched == pc = "running"

\* The command line parsed without error and without unknown arguments.
Parsed == pc # "parse" /\ ~cli.error /\ cli.unknown_args = << >>

\* The tokens of a command line that no option of the schema accounts for:
\* an option-like token that selects no option, or a plain token that does
\* not directly follow an option taking a value.
Unrecognized(av) ==
    LET stray(i) ==
            IF IsOptionLike(av[i]) THEN Matches(av[i]) = {}
            ELSE ~(/\ i > 1
                   /\ IsOptionLike(av[i - 1])
                   /\ \E h \in Matches(av[i - 1]) : arguments[h[1]].type # "bool")
        acc[i \in 0..Len(av)] ==
            IF i = 0 THEN << >>
            ELSE IF stray(i) THEN Append(acc[i - 1], av[i]) ELSE acc[i - 1]
    IN  acc[Len(av)]

(***************************************************************************)
(* C1.  CLI wins.                                                          *)
(***************************************************************************)
\* C1 as stated: at dispatch every bound option given on the command line
\* has exactly the given value on its target field, whatever the profile
\* assigned.
C1_CliWins ==
    Dispatched =>
        \A n \in cli.given \cap BoundDests : FieldOf(n) = cli.args[n]

\* C1 as amended: at dispatch every bound option given on the command line,
\* other than the model, has exactly the given value on its target field;
\* the model field holds the given model name as the API-base rule rewrites
\* it, which is the given name itself when no API base is set.
C1_CliWinsUpToApiBase ==
    Dispatched =>
        \A n \in cli.given \cap BoundDests :
            IF n = "model"
            THEN llm.model = ApiBaseModel([llm EXCEPT !.model = cli.args.model]).model
            ELSE FieldOf(n) = cli.args[n]

\* C1 witness: dispatch is reached with a model given on the command line
\* and a profile that assigned another model.
C1_Witness ==
    /\ Dispatched
    /\ "model" \in cli.given
    /\ \E w \in ProfileWrites("model") : w[3] # cli.args.model
    /\ llm.model = cli.args.model

(***************************************************************************)
(* C2.  Profile over default.                                              *)
(***************************************************************************)
\* C2 as stated: when the second binder pass has run, the field of every
\* bound option not given on the command line holds what the profile
\* assigned to it, or else the library default.
C2_ProfileOverDefault ==
    pc = "infer" =>
        \A n \in BoundDests \ cli.given :
            FieldOf(n) = IF ProfileWrites(n) # {}
                         THEN (CHOOSE w \in ProfileWrites(n) : TRUE)[3]
                         ELSE LibraryFieldOf(n)

(***************************************************************************)
(* C3.  The post-profile pass writes literally given options only.         *)
(***************************************************************************)
\* C3 as stated: the second set_attributes pass assigns a field only when
\* its option was literally given on the command line.
C3_PostProfilePassOnlyGiven ==
    Len(BinderPasses) >= 2 => BinderPasses[2][2] \subseteq GivenAttributes

(***************************************************************************)
(* C4.  The three states of --reset_profile.                               *)
(***************************************************************************)
\* C4 as stated: once the special flags are handled (and neither directory
\* opener was asked for), an omitted --reset_profile has reset nothing; a
\* given one, bare or with a name, has called reset_profile exactly once,
\* with None (all default profiles) or with the name, and returned before
\* any binding or profile loading.
C4_ResetProfileThreeWays ==
    (Parsed /\ pc # "special" /\ ~Truthy(args.profiles) /\ ~Truthy(args.local_models)) =>
        IF "reset_profile" \notin cli.given
        THEN ~Logged("reset_profile")
        ELSE /\ Cardinality(Tagged("reset_profile")) = 1
             /\ \A i \in Tagged("reset_profile") : log[i][2] = cli.args.reset_profile
             /\ ~Logged("set_attributes")
             /\ ~Logged("profile")
             /\ outcome = "return"

C6_DeclineRunsNoInstall ==
    \A i \in Tagged("input") :
        Declined(log[i][2]) => (Logged("print_starting_anyway") /\ InstallsRun = {})

(***************************************************************************)
(* C7.  OS-mode provisioning is never fatal.                               *)
(***************************************************************************)
\* Mode expansion is about to run the OS-control block.
OsStarted == pc = "mode" /\ Truthy(args.os)

\* The OS-control block has just ended: "OS Control enabled" was displayed
\* and the effective profile is the OS profile.
ProvisionDone ==
    /\ pc = "local"
    /\ Logged("display_os_enabled")
    /\ args.profile = S("os.py")

\* C7: in a run the user does not interrupt, an OS-control block that is
\* started reaches provision-done with the OS profile as the effective
\* profile, and from there resolution goes on through both binder passes and
\* the profile loader to dispatch.
C7_ProvisioningNeverFatal ==
    /\ OsStarted ~> ProvisionDone
    /\ ProvisionDone ~>
          (Dispatched /\ Len(BinderPasses) = 2 /\ Cardinality(Tagged("profile")) = 1)

\* C7 witness: dispatch is reached in OS mode although packages were still
\* missing after both install attempts.
C7_Witness ==
    /\ Dispatched
    /\ interpreter.os = B(TRUE)
    /\ Cardinality(InstallsRun) = 2
    /\ Logged("print_warning_not_installed")

(***************************************************************************)
(* C8.  OS mode with every package importable.                             *)
(***************************************************************************)
\* The first import check of the run found nothing missing.
FirstCheckFoundAll ==
    /\ Logged("import_check")
    /\ log[CHOOSE i \in Tagged("import_check") : \A j \in Tagged("import_check") : i <= j][2] = << >>

\* The field settings of OS mode, as mode expansion leaves them.
OsSettingsApplied ==
    /\ interpreter.os = B(TRUE)
    /\ interpreter.auto_run = B(TRUE)
    /\ interpreter.force_task_completion = B(TRUE)
    /\ interpreter.system_message \notin {S(""), S(DefaultSystemMessage)}
    /\ llm.supports_vision = B(TRUE)
    /\ llm.supports_functions = B(FALSE)
    /\ llm.context_window = I(110000)
    /\ llm.max_tokens = I(4096)

\* C8: when the first import check of OS mode finds every package
\* importable, no prompt is issued, no install command is run and no
\* missing-package warning is printed, at any later point of the run; and
\* when the OS-control block ends, the OS settings are applied, "OS Control
\* enabled" was displayed and the OS profile is selected.
C8_AllImportableNoPrompt ==
    FirstCheckFoundAll =>
        /\ ~Logged("display_missing")
        /\ ~Logged("input")
        /\ InstallsRun = {}
        /\ ~Logged("print_warning_not_installed")
        /\ ~Logged("print_install_manually")
        /\ pc \notin {"prompt", "install", "recheck"}
        /\ pc = "local" => (ProvisionDone /\ OsSettingsApplied)

\* C8 witness: the OS-control block has ended after a first import check
\* that found every package.
C8_Witness ==
    /\ FirstCheckFoundAll
    /\ ProvisionDone
    /\ OsSettingsApplied

(***************************************************************************)
(* C9.  The banners of OS mode.                                            *)
(***************************************************************************)
\* C9 as stated: once "OS Control enabled" and its banners are out, the
\* screenshot-service banner was shown exactly when offline mode is not set,
\* and the screen-recording reminder exactly when auto-run is not set.
C9_Banners ==
    (Logged("display_os_enabled") /\ pc # "os_enabled") =>
        /\ Logged("display_api_message") <=> ~Truthy(args.offline)
        /\ Logged("display_screen_recording") <=> ~Truthy(args.auto_run)

\* C9 as amended: the screenshot-service banner was shown exactly when
\* neither offline mode nor auto-run is set, and the screen-recording
\* reminder exactly when auto-run is not set.
C9_BannersUnlessAutoRun ==
    (Logged("display_os_enabled") /\ pc # "os_enabled") =>
        /\ Logged("display_api_message") <=> (~Truthy(args.offline) /\ ~Truthy(args.auto_run))
        /\ Logged("display_screen_recording") <=> ~Truthy(args.auto_run)

\* C9 witness: OS mode online with auto-run: neither banner was shown.
C9_Witness ==
    /\ Logged("display_os_enabled")
    /\ pc = "local"
    /\ Truthy(args.auto_run)
    /\ ~Truthy(args.offline)
    /\ ~Logged("display_api_message")
    /\ ~Logged("display_screen_recording")

(***************************************************************************)
(* C10.  --fast against --profile.                                         *)
(***************************************************************************)
\* C10: when --fast and --profile are both given, in either order, and no
\* mode flag of higher priority (vision, os, local) is, the one profile the
\* loader is called with is the fast profile, not the profile named on the
\* command line.
C10_FastBeatsProfile ==
    ({"fast", "profile"} \subseteq cli.given /\ cli.given \cap {"vision", "os", "local"} = {}) =>
        /\ \A i \in Tagged("profile") : log[i][2] = S("fast.yaml")
        /\ pc \in {"bind_post", "infer", "update", "api_base", "dispatch", "running"}
              => Cardinality(Tagged("profile")) = 1

\* C10 witness: the loader was called in a run of `--fast --profile
\* custom.yaml`, the profile being named after the mode flag.
C10_Witness ==
    /\ argv = <<"--fast", "--profile", "custom.yaml">>
    /\ cli.args.profile = S("custom.yaml")
    /\ Logged("profile")

(***************************************************************************)
(* C11, C12.  Model default inference.                                     *)
(***************************************************************************)
\* The three fields the inferencer may fill.
InferredFields == {"context_window", "max_tokens", "supports_functions"}

\* The model name is exactly one of the two names of the first rule.
ExactGpt4(m) == m \in {"gpt-4", "openai/gpt-4"}

PrefixGpt4(m) == StartsWith(m, "gpt-4") \/ StartsWith(m, "openai/gpt-4")

PrefixGpt35(m) == StartsWith(m, "gpt-3.5-turbo") \/ StartsWith(m, "openai/gpt-3.5-turbo")

\* C11: when inference starts with context window, max tokens and
\* function-calling support all unset, it ends without error and: the name
\* "gpt-4" or "openai/gpt-4" gets context window 6500 and max tokens 4096;
\* any other name that starts with "gpt-4" or "openai/gpt-4" gets
\* function-calling support false if it contains "vision" and true
\* otherwise; a name that starts with "gpt-3.5-turbo" or
\* "openai/gpt-3.5-turbo" gets context window 16000; a name matching no rule
\* keeps all three unset.
C11_InferenceRules ==
    [][(pc = "infer" /\ \A f \in InferredFields : llm[f] = None) =>
          LET m == llm.model[2]
          IN  /\ pc' = "update"
              /\ ExactGpt4(m) =>
                    llm'.context_window = I(6500) /\ llm'.max_tokens = I(4096)
              /\ (PrefixGpt4(m) /\ ~ExactGpt4(m)) =>
                    llm'.supports_functions = B(~Contains(m, "vision"))
              /\ PrefixGpt35(m) => llm'.context_window = I(16000)
              /\ (~PrefixGpt4(m) /\ ~PrefixGpt35(m)) =>
                    \A f \in InferredFields : llm'[f] = None]_vars

\* C11 witness: inference has run on `--model gpt-4-turbo` with nothing set
\* beforehand: the context window is the one only the second rule assigns.
C11_Witness ==
    /\ pc = "update"
    /\ llm.model = S("gpt-4-turbo")
    /\ llm.context_window = I(123000)
    /\ llm.max_tokens = I(4096)
    /\ llm.supports_functions = B(TRUE)

\* C12: a field among context window, max tokens and function-calling
\* support that is set when inference starts has the same value when it
\* ends, for every model name.
C12_InferenceKeepsSetValues ==
    [][pc = "infer" =>
          \A f \in InferredFields : llm[f] # None => llm'[f] = llm[f]]_vars

\* C12 witness: inference has run on the model "gpt-4" with the context
\* window the profile set still in place and max tokens filled in.
C12_Witness ==
    /\ pc = "update"
    /\ llm.model = S("gpt-4")
    /\ <<"llm", "context_window", I(3000)>> \in profile_file
    /\ llm.context_window = I(3000)
    /\ llm.max_tokens = I(4096)

(***************************************************************************)
(* C13.  API-base model rewriting.                                         *)
(***************************************************************************)
\* The prefixes that exempt a model name from the "openai/" prefix.
ProviderPrefixes == {"openai/", "azure/", "ollama", "jan", "local"}

\* C13: the rewriting step, with an API base set, turns a name that starts
\* with none of the provider prefixes (case-insensitively) into "openai/" +
\* name, strips "jan/" from a name that starts with it, and leaves every
\* other name unchanged; with no API base set it leaves the name unchanged.
C13_ApiBaseRewriting ==
    [][pc = "api_base" =>
          LET m == llm.model[2]
              low == Lower(m)
          IN  llm'.model =
                 IF ~Truthy(llm.api_base) THEN S(m)
                 ELSE IF \A p \in ProviderPrefixes : ~StartsWith(low, p) THEN S("openai/" \o m)
                 ELSE IF StartsWith(low, "jan/") THEN S(SubSeq(m, 5, Len(m)))
                 ELSE S(m)]_vars

\* C13 witness: `--model JAN/llama2` with an API base set by the profile has
\* reached dispatch with the prefix stripped.
C13_Witness ==
    /\ pc = "dispatch"
    /\ cli.args.model = S("JAN/llama2")
    /\ Truthy(llm.api_base)
    /\ llm.model = S("llama2")

(***************************************************************************)
(* C14.  The special dispatch flags.                                       *)
(***************************************************************************)
\* The dests of the special dispatch flags.
SpecialDests == {"profiles", "local_models", "reset_profile", "version"}

\* The log entries that are the side effects of the special flags.
SpecialEffects ==
    Tagged("open_storage_dir") \cup Tagged("reset_profile") \cup Tagged("print_version")

\* C14 as stated: once a command line that parsed cleanly and gave a special
\* dispatch flag is past the special-flag checks, exactly one side effect of
\* a special flag has run, the function has returned, no field of the agent
\* or of its model config was written, and nothing else happened: no mode
\* expansion or provisioning, no profile load, no update check, no dispatch.
C14_SpecialFlagsShortCircuit ==
    (Parsed /\ cli.given \cap SpecialDests # {} /\ pc # "special") =>
        /\ pc \in {"finally", "done"}
        /\ outcome = "return"
        /\ Cardinality(SpecialEffects) = 1
        /\ interpreter = LibraryInterpreter
        /\ llm = LibraryLlm
        /\ \A i \in DOMAIN log : i \in SpecialEffects \/ log[i][1] \in {"print_renamed", "terminate"}

(***************************************************************************)
(* C15.  What OS control mode has set when mode expansion completes.       *)
(***************************************************************************)
\* C15: when OS control mode was requested and control stands before the
\* first binder pass, the model config has vision support true,
\* function-calling support false, context window 110000 and max tokens
\* 4096, the agent has auto-run and force-task-completion true and a
\* non-empty system message, and the effective profile is the OS profile,
\* or the local profile when --local was given too.
C15_OsSettingsAtExpansionEnd ==
    (pc = "bind_pre" /\ "os" \in cli.given) =>
        /\ llm.supports_vision = B(TRUE)
        /\ llm.supports_functions = B(FALSE)
        /\ llm.context_window = I(110000)
        /\ llm.max_tokens = I(4096)
        /\ interpreter.auto_run = B(TRUE)
        /\ interpreter.force_task_completion = B(TRUE)
        /\ interpreter.system_message[1] = "str"
        /\ interpreter.system_message[2] # ""
        /\ EffectiveProfile(args) =
              IF "local" \in cli.given THEN S("local.py") ELSE S("os.py")
        /\ Len(BinderPasses) = 0

\* C15 witness: mode expansion of `--fast --os` has completed; the OS
\* profile replaced the fast one.
C15_Witness ==
    /\ pc = "bind_pre"
    /\ {"os", "fast"} \subseteq cli.given
    /\ "local" \notin cli.given
    /\ args.profile = S("os.py")
    /\ llm.context_window = I(110000)

(***************************************************************************)
(* C16.  Deprecated-flag rewriting.                                        *)
(***************************************************************************)
\* The command line with every `--debug_mode` token replaced, where it
\* stands, by `--verbose`.
ReplacedInPlace(av) ==
    [i \in DOMAIN av |-> IF av[i] = "--debug_mode" THEN "--verbose" ELSE av[i]]

\* C16 as stated: for a raw command line that contains `--debug_mode`, the
\* parse the program makes gives the same accept/reject outcome, the same
\* options and the same unknown arguments as the parse of the command line
\* with each `--debug_mode` replaced in place by `--verbose`.
C16_DeprecatedRewriteTransparent ==
    [][(pc = "parse" /\ InList(argv, "--debug_mode")) =>
          LET r == parse_known_args(ReplacedInPlace(argv))
          IN  /\ cli'.error = r.error
              /\ cli'.args = r.args
              /\ cli'.unknown_args = r.unknown_args]_vars

(***************************************************************************)
(* C17.  main releases the execution resources on every exit path.         *)
(***************************************************************************)
\* The ways start_terminal_interface ends.
ExitPaths == {"return", "exit1", "exit2", "KeyboardInterrupt"}

\* C17: computer.terminate() is never called before start_terminal_interface
\* has ended and never twice; when main is over, whichever way
\* start_terminal_interface ended (a return, normal or early; exit status 1
\* or 2; the user's interrupt), it has been called exactly once, as the last
\* thing done, and the user's interrupt is not raised to main's caller.
C17_TerminateOnEveryExit ==
    /\ terminated = Cardinality(Tagged("terminate"))
    /\ terminated = (IF pc = "done" THEN 1 ELSE 0)
    /\ pc = "done" =>
          /\ outcome \in ExitPaths
          /\ log[Len(log)] = <<"terminate">>
          /\ Propagated # "KeyboardInterrupt"
          /\ outcome = "KeyboardInterrupt" => Propagated = "none"

\* C17 witness: the user interrupted the second install command; main is
\* over and the resources were released.
C17_Witness ==
    /\ pc = "done"
    /\ outcome = "KeyboardInterrupt"
    /\ Cardinality(InstallsRun) = 1
    /\ ~Logged("display_os_enabled")
    /\ terminated = 1

(***************************************************************************)
(* C18.  The install attempts after the prompt was accepted.               *)
(***************************************************************************)
\* The install prompt was answered with y or Y.
Accepted == Logged("input") /\ Lower(user_input) = "y"

\* What the first import check of the run found missing.
InitiallyMissing ==
    log[CHOOSE i \in Tagged("import_check") : \A j \in Tagged("import_check") : i <= j][2]

\* The install loop and the check after it are over.
AttemptsOver == pc = "os_enabled" \/ Logged("display_os_enabled")

\* C18: after the prompt was accepted, at most two install commands run,
\* the first with pip and the second with pip3; each is directly followed
\* by an import check of the initially missing packages; the second runs
\* only if the check after the first found one of them still missing, and
\* then it does run; and once the attempts are over, at least one was made
\* and the missing-package warning was printed exactly when some package of
\* the full list is not importable, never before.
C18_InstallAttempts ==
    Accepted =>
        LET inst == InstallsRun
            first == CHOOSE i \in inst : \A j \in inst : i <= j
            last == CHOOSE i \in inst : \A j \in inst : j <= i
            missingNow(list) == SelectSeq(list, LAMBDA p : p \notin importable)
        IN  /\ Cardinality(inst) <= 2
            /\ \A i \in inst :
                  /\ log[i][3] = (IF i = first THEN "pip" ELSE "pip3")
                                     \o " install 'open-interpreter[os]'"
                  /\ i + 1 \in Tagged("import_check")
                  /\ \A k \in DOMAIN log[i + 1][2] :
                        \E k0 \in DOMAIN InitiallyMissing :
                            log[i + 1][2][k] = InitiallyMissing[k0]
            /\ inst # {} => log[last + 1][2] = missingNow(InitiallyMissing)
            /\ Cardinality(inst) = 2 => log[first + 1][2] # << >>
            /\ IF AttemptsOver
               THEN /\ inst # {}
                    /\ Cardinality(inst) = 1 => log[first + 1][2] = << >>
                    /\ Logged("print_warning_not_installed") <=> missingNow(packages) # << >>
                    /\ \A w \in Tagged("print_warning_not_installed") : w > last
               ELSE ~Logged("print_warning_not_installed")

\* C18 witness: the prompt was accepted, pip left the package missing, pip3
\* installed it, and no warning was printed.
C18_Witness ==
    /\ Accepted
    /\ AttemptsOver
    /\ Cardinality(InstallsRun) = 2
    /\ importable = AllImportable
    /\ ~Logged("print_warning_not_installed")

(***************************************************************************)
(* C19.  What one binder pass writes and what it leaves alone.             *)
(***************************************************************************)
\* The options whose binding in the schema names the field attr of object.
BoundTo(object, attr) ==
    {arguments[i].name : i \in {j \in DOMAIN arguments :
                                   /\ arguments[j].object = object
                                   /\ arguments[j].attr_name = attr}}

\* The effect a binder pass must have on one field: the parsed value of the
\* option bound to it when that value is not absent, else no change.
BoundOrKept(object, attr, old, new) ==
    LET present == {n \in BoundTo(object, attr) : args[n] # None}
    IN  IF present = {} THEN new = old
        ELSE \A n \in present : new = args[n]

\* C19: a binder pass, before or after the profile, leaves unchanged every
\* field whose option's parsed value is absent and every field no option is
\* bound to, and assigns to every other field the parsed value of its
\* option; it changes nothing in the parsed options.
C19_BinderFrame ==
    [][(pc = "bind_pre" \/ pc = "bind_post") =>
          /\ \A f \in DOMAIN interpreter :
                BoundOrKept("interpreter", f, interpreter[f], interpreter'[f])
          /\ \A f \in DOMAIN llm : BoundOrKept("llm", f, llm[f], llm'[f])
          /\ DOMAIN interpreter' = DOMAIN interpreter
          /\ DOMAIN llm' = DOMAIN llm
          /\ args' = args]_vars

\* C19 witness: the second binder pass has run after a profile that set the
\* context window: the context window, whose option was absent, kept the
\* profile's value, the model took the parsed value of its option, and a
\* field no option is bound to is as the library built it.
C19_Witness ==
    /\ pc = "infer"
    /\ args.context_window = None
    /\ <<"llm", "context_window", I(3000)>> \in profile_file
    /\ llm.context_window = I(3000)
    /\ args.model # None
    /\ llm.model = args.model
    /\ interpreter.in_terminal_interface = B(FALSE)

(***************************************************************************)
(* C20.  Write ordering of the resolution pipeline.                        *)
(***************************************************************************)
\* What mode expansion and provisioning print, ask and run.
ModeExpansionTags ==
    {"import_check", "display_missing", "input", "print_install_manually",
     "print_starting_anyway", "computer_run", "print_warning_not_installed",
     "display_os_enabled", "display_api_message", "display_screen_recording",
     "display_no_approval_warning"}

\* Control is at model default inference or past it.
AtOrPastInference == pc \in {"infer", "update", "api_base", "dispatch", "running"}

\* C20: everything mode expansion does precedes the first binder pass; there
\* are at most two binder passes and one profile load, and the profile load
\* comes after exactly one binder pass; model default inference starts, and
\* dispatch is reached, only when both binder passes and the one profile
\* load between them are done; and once the second binder pass is done the
\* model config is written only by inference and API-base rewriting, and the
\* agent only by the dispatch step.
C20_WriteOrdering ==
    /\ [](LET passes == Tagged("set_attributes")
              loads == Tagged("profile")
          IN  /\ \A b \in passes, i \in DOMAIN log :
                     log[i][1] \in ModeExpansionTags => i < b
              /\ Cardinality(passes) <= 2
              /\ Cardinality(loads) <= 1
              /\ \A p \in loads : Cardinality({b \in passes : b < p}) = 1
              /\ Cardinality(passes) = 2 =>
                     \E p \in loads : Cardinality({b \in passes : b > p}) = 1
              /\ AtOrPastInference =>
                     Cardinality(passes) = 2 /\ Cardinality(loads) = 1)
    /\ [][Cardinality(Tagged("set_attributes")) = 2 =>
              /\ Tagged("set_attributes")' = Tagged("set_attributes")
              /\ Tagged("profile")' = Tagged("profile")
              /\ llm' # llm => (pc = "infer" \/ pc = "api_base")
              /\ interpreter' # interpreter => pc = "dispatch"]_vars

\* C20 witness: an OS-control run with a model set by the profile has
\* reached dispatch after both binder passes.
C20_Witness ==
    /\ Dispatched
    /\ Logged("display_os_enabled")
    /\ profile_file # {}
    /\ Len(BinderPasses) = 2
    /\ Cardinality(Tagged("profile")) = 1

(***************************************************************************)
(* C21.  Safe mode against auto-run.                                       *)
(***************************************************************************)
\* C21 as stated: when control has been handed to chat, the server or the
\* conversation navigator, the agent does not have auto_run true while its
\* safe_mode is "ask" or "auto".
C21_SafeModeDisablesAutoRun ==
    Dispatched =>
        ~(/\ interpreter.auto_run = B(TRUE)
          /\ interpreter.safe_mode \in {S("ask"), S("auto")})

(***************************************************************************)
(* C22.  The effective profile when mode flags are combined.               *)
(***************************************************************************)
\* The profile the priority local > os > vision > fast > --profile > schema
\* default fixes, from the set of flags given and the name given to
\* --profile: the order of the flags plays no part in it.
PriorityProfile ==
    IF "local" \in cli.given THEN S("local.py")
    ELSE IF "os" \in cli.given THEN S("os.py")
    ELSE IF "vision" \in cli.given THEN S("vision.yaml")
    ELSE IF "fast" \in cli.given THEN S("fast.yaml")
    ELSE IF "profile" \in cli.given /\ cli.args.profile # S("") THEN cli.args.profile
    ELSE S("default.yaml")

\* C22: every call of the profile loader is made with the profile the
\* priority fixes from the set of flags given, whatever their order on the
\* command line, and with a non-empty name.
C22_ProfilePriority ==
    \A i \in Tagged("profile") :
        /\ log[i][2] = PriorityProfile
        /\ log[i][2][1] = "str"
        /\ log[i][2][2] # ""

\* C22 witness: the loader was called with the local profile in a run that
\* gave --fast and --os before --local.
C22_Witness ==
    /\ argv = <<"--fast", "--os", "--local">>
    /\ \E i \in Tagged("profile") : log[i][2] = S("local.py")

(***************************************************************************)
(* C23.  Inferred defaults against the final model name.                   *)
(***************************************************************************)
\* C23 as stated: at dispatch, when the model name as API-base rewriting
\* left it is "gpt-4" or "openai/gpt-4" or starts with "gpt-4",
\* "openai/gpt-4", "gpt-3.5-turbo" or "openai/gpt-3.5-turbo", the context
\* window, max tokens and function-calling support are all set.
C23_DefaultsMatchFinalModel ==
    (Dispatched /\ (PrefixGpt4(llm.model[2]) \/ PrefixGpt35(llm.model[2]))) =>
        \A f \in InferredFields : llm[f] # None

====
